---- MODULE Spec2Model ----
(***************************************************************************)
(* Sunburst mind map: the angular layout and gap engine.                   *)
(*                                                                         *)
(*   LayoutCalculator  (calculateLayout, createLayoutNode, hit-testing,    *)
(*                      validateLayout, the JSON-keyed result cache)       *)
(*   GapManager        (insertGaps, removeGaps, adjustGapAngle,            *)
(*                      setEnabled)                                        *)
(*   SunburstEngine    (setData, applyGaps)                                *)
(*                                                                         *)
(* and the collaborators around it:                                        *)
(*                                                                         *)
(*   HistoryManager    (record, undo, redo, setMaxSteps, clear,            *)
(*                      setEnabled)                                        *)
(*   TreeManager       (addNode, deleteNode, setSelectedNode,              *)
(*                      loadFromJSON, fromEChartsData, clear)              *)
(*   ThemeManager      (switchTheme, applyTheme and their callbacks)       *)
(*                                                                         *)
(* Numbers.  The source computes in IEEE doubles; the model computes in    *)
(* exact rational arithmetic (records [n, d] in lowest terms, d > 0).      *)
(* Angles are kept in DEGREES: the source's radians are degrees scaled by  *)
(* the constant pi/180 (gapRadians = gapAngle * pi / 180, the full circle  *)
(* 2*pi = 360 degrees), and every angle computation of the source is       *)
(* linear in that scale, so the degree model is the radian model divided   *)
(* by pi/180.  Radii are ratios of the chart radius.  Where the model      *)
(* finds two angles to differ, they differ by a rational number of         *)
(* degrees that rounding in doubles (1e-6 rad and less) does not bridge.   *)
(***************************************************************************)
EXTENDS Integers, Sequences, FiniteSets, TLC

VARIABLES
    options,     \* LayoutCalculator.options
    cache,       \* LayoutCalculator.cache: input forest (its JSON) -> placed forest
    gapOptions,  \* GapManager.options
    gapNodes,    \* GapManager.gapNodes: the registry entries, one per id
    inputNodes,  \* the caller's input forest
    placed,      \* the placed forest the caller holds; the cached forest is
                 \* made of the same node objects
    gapPasses,   \* insertGaps and applyGaps passes over placed since it last
                 \* was free of gaps
    ret,         \* the last call and what it returned
    historyManager,  \* the HistoryManager: maxSteps, undoStack, redoStack, enabled
    treeManager,     \* the TreeManager: nodes, rootNodes, selectedNodeId, the
                     \* limits, and the node objects it can reach
    themeManager     \* the ThemeManager: currentTheme, previousTheme,
                     \* isTransitioning, and the transitions in flight

vars == <<options, cache, gapOptions, gapNodes, inputNodes, placed, gapPasses, ret,
          historyManager, treeManager, themeManager>>

\* the state of the layout calculator and the gap manager
layoutVars == <<options, cache, gapOptions, gapNodes, inputNodes, placed, gapPasses>>

\* the state of the history, tree and theme managers
managerVars == <<historyManager, treeManager, themeManager>>

(***************************************************************************)
(* Exact rationals                                                         *)
(***************************************************************************)
Abs(x) == IF x < 0 THEN -x ELSE x

RECURSIVE GCD(_, _)
GCD(a, b) == IF b = 0 THEN a ELSE GCD(b, a % b)

\* the rational n/d (d # 0) in lowest terms with a positive denominator
Rat(n, d) ==
    LET g == GCD(Abs(n), Abs(d))
        s == IF d < 0 THEN -1 ELSE 1
    IN  [n |-> s * (n \div g), d |-> s * (d \div g)]

FromInt(i) == [n |-> i, d |-> 1]

Zero == FromInt(0)

One == FromInt(1)

LCM(a, b) == (a \div GCD(a, b)) * b

\* numerators of a and b over their least common denominator
NumOver(a, b) == a.n * (LCM(a.d, b.d) \div a.d)

RAdd(a, b) == Rat(NumOver(a, b) + NumOver(b, a), LCM(a.d, b.d))

RSub(a, b) == Rat(NumOver(a, b) - NumOver(b, a), LCM(a.d, b.d))

\* product, cancelling across before multiplying
RMul(a, b) ==
    LET g1 == GCD(Abs(a.n), b.d)
        g2 == GCD(Abs(b.n), a.d)
    IN  IF a.n = 0 \/ b.n = 0 THEN Zero
        ELSE Rat((a.n \div g1) * (b.n \div g2), (a.d \div g2) * (b.d \div g1))

\* quotient a / b, b # 0
RDiv(a, b) == RMul(a, Rat(b.d, b.n))

RLt(a, b) == NumOver(a, b) < NumOver(b, a)

RLe(a, b) == NumOver(a, b) <= NumOver(b, a)

RMax(a, b) == IF RLt(a, b) THEN b ELSE a

RAbs(a) == [n |-> Abs(a.n), d |-> a.d]

\* sum of the first k entries of a sequence of rationals
RECURSIVE RSum(_, _)
RSum(s, k) == IF k = 0 THEN Zero ELSE RAdd(RSum(s, k - 1), s[k])

(***************************************************************************)
(* Bounds of the model and constants of the program                        *)
(***************************************************************************)
\* most siblings in one group of an input forest
MaxChildren == 2

\* deepest node of an input forest (roots have depth 0)
MaxTreeDepth == 2

\* most insertGaps passes over a forest before its gaps are removed
MaxGapPasses == 1

\* 2 * Math.PI, in degrees
FullCircle == 360

\* LayoutCalculator's defaults
DefaultGapAngle == 3

DefaultMaxDepth == 10

DefaultInnerRadius == Rat(15, 100)

DefaultOuterRadius == Rat(90, 100)

\* GapManager's default minChildrenForGap
DefaultMinChildrenForGap == 2

\* a field the object does not have (a gap node has no depth and no radii);
\* every numeric comparison with it is false, as with undefined in the source
Undefined == [n |-> 0, d |-> 0]

\* what a search returns when it finds nothing: null, shaped like a node
Null ==
    [id |-> <<-1>>, value |-> 0, isGap |-> FALSE, startAngle |-> Undefined,
     angleRange |-> Undefined, depth |-> -1, innerRadius |-> Undefined,
     outerRadius |-> Undefined, children |-> <<>>]

\* configured gap angles (degrees): none, the default, the 10 degree
\* scenario, and one that no group of two can accommodate twice
GapAngles == {0, DefaultGapAngle, 10, 120}

\* configured maxDepth: the default and one the input forests exceed
MaxDepths == {1, DefaultMaxDepth}

(***************************************************************************)
(* Input forests.  Every node has the same shape; a field the object does  *)
(* not have is Undefined (depth: -1).  An input node has id, value and     *)
(* children; value 0 stands for a value that is 0 or missing (both are     *)
(* falsy in `node.value || 1`).  The forests are combs (n roots, the first *)
(* node of every group has n children, down to depth D) and forks (one     *)
(* root, a chain of only children, and MaxChildren leaves at its end).     *)
(***************************************************************************)
Patterns == {"ones", "skew", "zero"}

\* a node as the tree-management side hands it over: no layout fields
RawNode(id, value, children) ==
    [id |-> id, value |-> value, isGap |-> FALSE, startAngle |-> Undefined,
     angleRange |-> Undefined, depth |-> -1, innerRadius |-> Undefined,
     outerRadius |-> Undefined, children |-> children]

ValueOf(pattern, i) ==
    CASE pattern = "ones" -> 1
      [] pattern = "skew" -> IF i % 2 = 1 THEN 1 ELSE 3
      [] pattern = "zero" -> IF i % 2 = 1 THEN 0 ELSE 1

RECURSIVE MakeLevel(_, _, _, _)
MakeLevel(path, n, levels, pattern) ==
    [i \in 1..n |->
        RawNode(Append(path, i), ValueOf(pattern, i),
                IF i = 1 /\ levels > 0
                THEN MakeLevel(Append(path, i), n, levels - 1, pattern)
                ELSE <<>>)]

RECURSIVE MakeFork(_, _, _)
MakeFork(path, levels, pattern) ==
    IF levels = 0
    THEN [i \in 1..MaxChildren |->
            RawNode(Append(path, i), ValueOf(pattern, i), <<>>)]
    ELSE <<RawNode(Append(path, 1), ValueOf(pattern, 1),
                   MakeFork(Append(path, 1), levels - 1, pattern))>>

Forests ==
    {<<>>}
    \cup {MakeLevel(<<>>, n, D, p) :
            n \in 1..MaxChildren, D \in 0..MaxTreeDepth, p \in Patterns}
    \cup {MakeFork(<<>>, D, p) : D \in 1..MaxTreeDepth, p \in Patterns}

(***************************************************************************)
(* LayoutCalculator: weights                                               *)
(***************************************************************************)
\* node.value || 1, plus 0.1 per child, at least 0.1
calculateNodeWeight(node) ==
    LET base   == IF node.value = 0 THEN 1 ELSE node.value
        weight == RAdd(FromInt(base), Rat(Len(node.children), 10))
    IN  RMax(weight, Rat(1, 10))

RECURSIVE WeightSum(_, _)
WeightSum(nodes, k) ==
    IF k = 0 THEN Zero ELSE RAdd(WeightSum(nodes, k - 1), calculateNodeWeight(nodes[k]))

calculateTotalWeight(nodes) == WeightSum(nodes, Len(nodes))

(***************************************************************************)
(* LayoutCalculator: calculateLayout / createLayoutNode                    *)
(***************************************************************************)
\* totalGapAngle: the angle set aside for gaps in a group of n siblings
totalGapAngle(gap, n) == RMul(gap, FromInt(n))

\* availableAngle: what is left of the parent's range for the siblings
availableAngle(parentRange, gap, n) == RSub(parentRange, totalGapAngle(gap, n))

\* one sibling's share of the available angle
shareOf(weight, totalWeight, available) == RMul(RDiv(weight, totalWeight), available)

\* currentAngle after sibling `index` (0-based) of n has been placed
advance(current, range, gap, index, n) ==
    IF index < n - 1 THEN RAdd(RAdd(current, range), gap) ELSE RAdd(current, range)

\* the angle ranges of a group of siblings
groupRanges(nodes, parentRange, gap) ==
    LET total == calculateTotalWeight(nodes)
        avail == availableAngle(parentRange, gap, Len(nodes))
    IN  [i \in 1..Len(nodes) |-> shareOf(calculateNodeWeight(nodes[i]), total, avail)]

\* the start angles of a group of siblings: the running currentAngle
RECURSIVE startOf(_, _, _, _)
startOf(ranges, parentStart, gap, i) ==
    IF i = 1 THEN parentStart
    ELSE advance(startOf(ranges, parentStart, gap, i - 1), ranges[i - 1], gap,
                 i - 2, Len(ranges))

\* the ring of the children of a node placed with `layout`
childRing(opts, layout) ==
    LET childDepth  == layout.depth + 1
        radiusStep  == RDiv(RSub(layout.outerRadius, layout.innerRadius),
                            FromInt(opts.maxDepth + 1))
        childInner  == RAdd(layout.innerRadius, RMul(radiusStep, FromInt(childDepth)))
    IN  [innerRadius |-> childInner, outerRadius |-> RAdd(childInner, radiusStep)]

RECURSIVE createLayoutNode(_, _, _)
createLayoutNode(opts, node, layout) ==
    LET n      == Len(node.children)
        gap    == FromInt(opts.gapAngle)
        ranges == groupRanges(node.children, layout.angleRange, gap)
        ring   == childRing(opts, layout)
    IN  [id          |-> node.id,
         value       |-> node.value,
         isGap       |-> node.isGap,
         startAngle  |-> layout.startAngle,
         angleRange  |-> layout.angleRange,
         depth       |-> layout.depth,
         innerRadius |-> layout.innerRadius,
         outerRadius |-> layout.outerRadius,
         children    |->
            IF n > 0
            THEN [i \in 1..n |->
                    createLayoutNode(opts, node.children[i],
                        [startAngle  |-> startOf(ranges, layout.startAngle, gap, i),
                         angleRange  |-> ranges[i],
                         depth       |-> layout.depth + 1,
                         innerRadius |-> ring.innerRadius,
                         outerRadius |-> ring.outerRadius])]
            ELSE <<>>]

\* the forest calculateLayout computes on a cache miss
computeLayout(opts, nodes) ==
    LET gap    == FromInt(opts.gapAngle)
        ranges == groupRanges(nodes, FromInt(FullCircle), gap)
    IN  [i \in 1..Len(nodes) |->
            createLayoutNode(opts, nodes[i],
                [startAngle  |-> startOf(ranges, Zero, gap, i),
                 angleRange  |-> ranges[i],
                 depth       |-> 0,
                 innerRadius |-> opts.innerRadius,
                 outerRadius |-> opts.outerRadius])]

(***************************************************************************)
(* GapManager                                                              *)
(***************************************************************************)
\* `gap_${parentNode.id}_${gapIndex}`: node ids are paths of positive
\* numbers, so the 0 separators keep the three parts apart
GapId(parentId, gapIndex) == <<0>> \o parentId \o <<0, gapIndex>>

\* the gap node createGapNode builds (it has no depth and no radii) and the
\* entry it stores in the gapNodes registry
createGapNode(startAngle, angleRange, parentNode, gapIndex) ==
    [node |-> [id          |-> GapId(parentNode.id, gapIndex),
               value       |-> 0,
               isGap       |-> TRUE,
               startAngle  |-> startAngle,
               angleRange  |-> angleRange,
               depth       |-> -1,
               innerRadius |-> Undefined,
               outerRadius |-> Undefined,
               children    |-> <<>>],
     info |-> [id         |-> GapId(parentNode.id, gapIndex),
               parentId   |-> parentNode.id,
               startAngle |-> startAngle,
               angleRange |-> angleRange,
               gapIndex   |-> gapIndex]]

\* concatenation of the sequences s[1] .. s[k]
RECURSIVE Flatten(_, _)
Flatten(s, k) == IF k = 0 THEN <<>> ELSE Flatten(s, k - 1) \o s[k]

\* the equal share insertGaps gives every child of a group of n
gapChildAngle(parentAngleRange, gap, n) ==
    RDiv(RSub(parentAngleRange, RMul(gap, FromInt(n))), FromInt(n))

\* processNode of insertGaps: the node with gaps spliced into its subtree,
\* and the registry entries in the order they are set.  The forEach loop is
\* spliceFrom: the new children and the entries from the i-th child on.
RECURSIVE processNode(_, _, _, _)
RECURSIVE spliceFrom(_, _, _, _, _)
spliceFrom(gm, node, childAngle, currentAngle, i) ==
    LET n     == Len(node.children)
        gap   == FromInt(gm.gapAngle)
        child == processNode(gm,
                    [node.children[i] EXCEPT !.startAngle = currentAngle,
                                             !.angleRange = childAngle],
                    childAngle, currentAngle)
        after == RAdd(currentAngle, childAngle)
        made  == createGapNode(after, gap, node, i - 1)
        rest  == spliceFrom(gm, node, childAngle, RAdd(after, gap), i + 1)
    IN  IF i = n
        THEN [children |-> <<child.node>>, sets |-> child.sets]
        ELSE [children |-> <<child.node, made.node>> \o rest.children,
              sets     |-> Append(child.sets, made.info) \o rest.sets]

processNode(gm, node, parentAngleRange, parentStartAngle) ==
    LET n          == Len(node.children)
        childAngle == gapChildAngle(parentAngleRange, FromInt(gm.gapAngle), n)
        spliced    == spliceFrom(gm, node, childAngle, parentStartAngle, 1)
    IN  IF n < gm.minChildrenForGap
        THEN [node |-> node, sets |-> <<>>]
        ELSE [node |-> [node EXCEPT !.children = spliced.children],
              sets |-> spliced.sets]

\* insertGaps(data): the returned forest (the input's own, rewritten nodes)
\* and the registry entries set, in order
insertGaps(gm, data) ==
    IF ~gm.enableGaps \/ gm.gapAngle <= 0
    THEN [data |-> data, sets |-> <<>>, cleared |-> FALSE]
    ELSE LET done == [i \in 1..Len(data) |->
                         processNode(gm, data[i], FromInt(FullCircle), Zero)]
         IN  [data    |-> [i \in 1..Len(data) |-> done[i].node],
              sets    |-> Flatten([i \in 1..Len(data) |-> done[i].sets], Len(data)),
              cleared |-> TRUE]

\* Map.set for every entry of sets, in order: a later entry replaces an
\* earlier one with the same id
RECURSIVE RegistryAfter(_, _, _)
RegistryAfter(reg, sets, k) ==
    IF k = 0 THEN reg
    ELSE {e \in RegistryAfter(reg, sets, k - 1) : e.id # sets[k].id} \cup {sets[k]}

\* removeGapsFromNode: gap children dropped, the rest spread evenly
RECURSIVE removeGapsFromNode(_)
removeGapsFromNode(node) ==
    LET realChildren == SelectSeq(node.children, LAMBDA c : ~c.isGap)
        k            == Len(realChildren)
        childAngle   == RDiv(node.angleRange, FromInt(k))
    IN  [node EXCEPT !.children =
            [i \in 1..k |->
                removeGapsFromNode(
                    [realChildren[i] EXCEPT
                        !.startAngle = RAdd(node.startAngle,
                                            RMul(childAngle, FromInt(i - 1))),
                        !.angleRange = childAngle])]]

removeGaps(data) == [i \in 1..Len(data) |-> removeGapsFromNode(data[i])]

(***************************************************************************)
(* LayoutCalculator: coordinates and hit-testing.  A screen point is kept  *)
(* in the polar form findNodeByCoordinates reduces it to: its angle in     *)
(* [0, 360) and radiusRatio = distance / radius.                           *)
(***************************************************************************)
Defined(x) == x # Undefined

\* a >= b and a <= b of the source: false when either side is undefined
JsGe(a, b) == Defined(a) /\ Defined(b) /\ RLe(b, a)

JsLe(a, b) == Defined(a) /\ Defined(b) /\ RLe(a, b)

\* Math.atan2(dy, dx), plus 2 * pi when negative: the direction of an angle,
\* in [0, 360)
NormalizeAngle(a) == RSub(a, FromInt(FullCircle * (a.n \div (FullCircle * a.d))))

\* the polar part of calculateScreenCoordinates: angular and radial midpoint
calculateScreenCoordinates(node) ==
    [angle       |-> RAdd(node.startAngle, RDiv(node.angleRange, FromInt(2))),
     radiusRatio |-> RDiv(RAdd(node.innerRadius, node.outerRadius), FromInt(2))]

angleInRange(angle, node) ==
    LET angleStart == node.startAngle
        angleEnd   == RAdd(node.startAngle, node.angleRange)
    IN  IF JsLe(angleStart, angleEnd)
        THEN JsGe(angle, angleStart) /\ JsLe(angle, angleEnd)
        ELSE JsGe(angle, angleStart) \/ JsLe(angle, angleEnd)

\* radiusInRange without its lower bound
radiusInRangeNoLower(radiusRatio, node) == JsLe(radiusRatio, node.outerRadius)

radiusInRange(radiusRatio, node) ==
    JsGe(radiusRatio, node.innerRadius) /\ JsLe(radiusRatio, node.outerRadius)

\* the loop of findNodeByPolar from the i-th node on
RECURSIVE findFrom(_, _, _, _)
findFrom(angle, radiusRatio, nodes, i) ==
    IF i > Len(nodes) THEN Null
    ELSE LET node == nodes[i]
             childResult == findFrom(angle, radiusRatio, node.children, 1)
         IN  IF angleInRange(angle, node) /\ radiusInRange(radiusRatio, node)
             THEN IF Len(node.children) > 0 /\ childResult # Null
                  THEN childResult
                  ELSE node
             ELSE findFrom(angle, radiusRatio, nodes, i + 1)

findNodeByPolar(angle, radiusRatio, nodes) == findFrom(angle, radiusRatio, nodes, 1)

\* distance > radius is radiusRatio > 1
findNodeByCoordinates(point, nodes) ==
    IF RLt(One, point.radiusRatio) THEN Null
    ELSE findNodeByPolar(point.angle, point.radiusRatio, nodes)

(***************************************************************************)
(* LayoutCalculator: validateLayout                                        *)
(***************************************************************************)
\* 0.01 rad in degrees (1.8 / pi = 0.57296), as the convergent 55/96
AngleTolerance == Rat(55, 96)

RECURSIVE AngleSum(_, _)
AngleSum(nodes, k) == IF k = 0 THEN Zero ELSE RAdd(AngleSum(nodes, k - 1), nodes[k].angleRange)

\* [...nodes].sort((a, b) => a.startAngle - b.startAngle): a stable sort
RECURSIVE InsertSorted(_, _)
InsertSorted(sorted, node) ==
    IF sorted = <<>> THEN <<node>>
    ELSE IF RLt(node.startAngle, sorted[Len(sorted)].startAngle)
         THEN Append(InsertSorted(SubSeq(sorted, 1, Len(sorted) - 1), node),
                     sorted[Len(sorted)])
         ELSE Append(sorted, node)

RECURSIVE SortByStart(_, _)
SortByStart(nodes, k) ==
    IF k = 0 THEN <<>> ELSE InsertSorted(SortByStart(nodes, k - 1), nodes[k])

\* the issues checkNodeRadius pushes for a node and its subtree
RECURSIVE checkNodeRadius(_)
checkNodeRadius(node) ==
    (IF JsGe(node.innerRadius, node.outerRadius)
     THEN {[issue |-> "radiusInvalid", id |-> node.id]} ELSE {})
    \cup
    (IF (Defined(node.innerRadius) /\ RLt(node.innerRadius, Zero))
        \/ (Defined(node.outerRadius) /\ RLt(One, node.outerRadius))
     THEN {[issue |-> "radiusOutOfRange", id |-> node.id]} ELSE {})
    \cup
    UNION {
        (IF (Defined(node.children[i].innerRadius) /\ Defined(node.innerRadius)
                /\ RLt(node.children[i].innerRadius, node.innerRadius))
            \/ (Defined(node.children[i].outerRadius) /\ Defined(node.outerRadius)
                /\ RLt(node.outerRadius, node.children[i].outerRadius))
         THEN {[issue |-> "childRadius", id |-> node.children[i].id]} ELSE {})
        \cup checkNodeRadius(node.children[i]) : i \in 1..Len(node.children)}

validateLayout(nodes) ==
    LET totalAngle  == AngleSum(nodes, Len(nodes))
        angleError  == RAbs(RSub(totalAngle, FromInt(FullCircle)))
        sortedNodes == SortByStart(nodes, Len(nodes))
        issues      ==
            (IF RLt(AngleTolerance, angleError)
             THEN {[issue |-> "angleSum", id |-> <<>>]} ELSE {})
            \cup
            {[issue |-> "overlap", id |-> sortedNodes[i].id] :
                i \in {j \in 1..(Len(sortedNodes) - 1) :
                        RLt(sortedNodes[j + 1].startAngle,
                            RAdd(sortedNodes[j].startAngle, sortedNodes[j].angleRange))}}
            \cup
            UNION {checkNodeRadius(nodes[i]) : i \in 1..Len(nodes)}
    IN  [isValid |-> issues = {}, issues |-> issues, totalAngle |-> totalAngle]

(***************************************************************************)
(* HistoryManager: the undo and redo stacks.  A snapshot is the deep clone *)
(* of the recorded state with the action's description; its timestamp and *)
(* random id are read by none of the operations modelled and are left out. *)
(* A recorded state is an array of JSON values, "undefined" standing for a *)
(* hole that JSON.stringify writes as null.                                *)
(***************************************************************************)
\* maxSteps when the options give none
DefaultMaxSteps == 3

HistoryStates == {<<"a">>, <<"undefined">>}

\* the values setMaxSteps is called with; 0 is the one it throws on
StepChoices == 0..DefaultMaxSteps

\* JSON.parse(JSON.stringify(obj)) of an array
deepClone(obj) == [i \in DOMAIN obj |-> IF obj[i] = "undefined" THEN "null" ELSE obj[i]]

\* new HistoryManager({maxSteps, enabled}); maxSteps 0 is falsy and gives the default
HistoryManagerNew(maxSteps, enabled) ==
    [maxSteps  |-> IF maxSteps = 0 THEN DefaultMaxSteps ELSE maxSteps,
     undoStack |-> <<>>,
     redoStack |-> <<>>,
     enabled   |-> enabled]

canUndo(hm) == hm.enabled /\ Len(hm.undoStack) > 0

canRedo(hm) == hm.enabled /\ Len(hm.redoStack) > 0

\* record(state, action) with the redo stack left as it is
recordKeepingRedo(hm, state, action) ==
    IF ~hm.enabled THEN hm
    ELSE LET pushed == Append(hm.undoStack, [state |-> deepClone(state), action |-> action])
         IN  [hm EXCEPT !.undoStack = IF Len(pushed) > hm.maxSteps THEN Tail(pushed)
                                      ELSE pushed]

\* record(state, action)
record(hm, state, action) ==
    IF ~hm.enabled THEN hm
    ELSE LET pushed == Append(hm.undoStack, [state |-> deepClone(state), action |-> action])
         IN  [hm EXCEPT !.undoStack = IF Len(pushed) > hm.maxSteps THEN Tail(pushed)
                                      ELSE pushed,
                        !.redoStack = <<>>]

\* the last k entries of an array: stack.slice(-k)
SliceLast(stack, k) ==
    IF Len(stack) > k THEN SubSeq(stack, Len(stack) - k + 1, Len(stack)) ELSE stack

\* undo(): the manager after the call and what the call returns
undo(hm) ==
    IF ~canUndo(hm) THEN [hm |-> hm, isNull |-> TRUE, state |-> <<>>]
    ELSE LET snapshot == hm.undoStack[Len(hm.undoStack)]
         IN  [hm     |-> [hm EXCEPT !.undoStack = SubSeq(hm.undoStack, 1, Len(hm.undoStack) - 1),
                                    !.redoStack = Append(hm.redoStack, snapshot)],
              isNull |-> FALSE,
              state  |-> snapshot.state]

\* redo()
redo(hm) ==
    IF ~canRedo(hm) THEN [hm |-> hm, isNull |-> TRUE, state |-> <<>>]
    ELSE LET snapshot == hm.redoStack[Len(hm.redoStack)]
         IN  [hm     |-> [hm EXCEPT !.redoStack = SubSeq(hm.redoStack, 1, Len(hm.redoStack) - 1),
                                    !.undoStack = Append(hm.undoStack, snapshot)],
              isNull |-> FALSE,
              state  |-> snapshot.state]

\* setMaxSteps(maxSteps)
setMaxSteps(hm, maxSteps) ==
    IF maxSteps < 1 THEN [hm |-> hm, threw |-> TRUE]
    ELSE [hm    |-> [hm EXCEPT !.maxSteps  = maxSteps,
                               !.undoStack = SliceLast(hm.undoStack, maxSteps),
                               !.redoStack = SliceLast(hm.redoStack, maxSteps)],
          threw |-> FALSE]

\* HistoryManager.clear()
clearHistory(hm) == [hm EXCEPT !.undoStack = <<>>, !.redoStack = <<>>]

\* HistoryManager.setEnabled(enabled)
setHistoryEnabled(hm, enabled) ==
    IF enabled THEN [hm EXCEPT !.enabled = TRUE]
    ELSE clearHistory([hm EXCEPT !.enabled = FALSE])

(***************************************************************************)
(* TreeManager.  Node ids are 1..MaxNodeIds and NoNode stands for null.    *)
(* `objects` holds the TreeNode objects the manager can reach, by id:      *)
(* their parentId, depth and children (a list of ids); `nodes` is the key  *)
(* set of the id -> node Map, `rootNodes` the root array.  A node handed   *)
(* to addNode never carries the id of an object of the tree that the Map   *)
(* does not hold, so an id names one object.                               *)
(***************************************************************************)
MaxNodeIds == 3

TreeIds == 1..MaxNodeIds

NoNode == 0

\* maxDepth and maxNodes when the options give none
DefaultTreeMaxDepth == 10

DefaultMaxNodes == 1000

TreeMaxDepths == {1, DefaultTreeMaxDepth}

TreeMaxNodes == {2, DefaultMaxNodes}

\* new TreeManager({maxDepth, maxNodes})
TreeManagerNew(maxDepth, maxNodes) ==
    [nodes          |-> {},
     objects        |-> <<>>,
     rootNodes      |-> <<>>,
     selectedNodeId |-> NoNode,
     maxDepth       |-> maxDepth,
     maxNodes       |-> maxNodes]

\* new TreeNode({id, parentId, depth}): no children
TreeNodeNew(id, parentId, depth) ==
    [id |-> id, parentId |-> parentId, depth |-> depth, children |-> <<>>]

\* the ids of an array of node references
IdsIn(list) == {list[i] : i \in 1..Len(list)}

\* the entries of an array of ids other than id: filter(x => x.id !== id)
RECURSIVE WithoutId(_, _)
WithoutId(list, id) ==
    IF Len(list) = 0 THEN <<>>
    ELSE IF list[1] = id THEN WithoutId(Tail(list), id)
    ELSE <<list[1]>> \o WithoutId(Tail(list), id)

\* node.getDescendants(): every object below the node
RECURSIVE getDescendants(_, _)
getDescendants(objects, id) ==
    UNION {{c} \cup getDescendants(objects, c) : c \in IdsIn(objects[id].children)}

\* the objects reachable from the root array through children
TreeNodeIds(tm) ==
    IdsIn(tm.rootNodes) \cup UNION {getDescendants(tm.objects, r) : r \in IdsIn(tm.rootNodes)}

\* parent.addChild(child) on the objects
addChild(objects, parentId, childId) ==
    [objects EXCEPT ![childId].parentId = parentId,
                    ![childId].depth    = objects[parentId].depth + 1,
                    ![parentId].children = Append(@, childId)]

\* addNode(node, parentId); `below` are the objects the node already has
\* under it (none for a node that was just constructed)
addNode(tm, node, below, parentId) ==
    IF Cardinality(tm.nodes) >= tm.maxNodes THEN [tm |-> tm, ok |-> FALSE]
    ELSE IF node.depth > tm.maxDepth THEN [tm |-> tm, ok |-> FALSE]
    ELSE IF node.id \in tm.nodes THEN [tm |-> tm, ok |-> FALSE]
    ELSE LET held == (node.id :> node) @@ below @@ tm.objects
         IN  IF parentId # NoNode /\ parentId \in tm.nodes
             THEN [tm |-> [tm EXCEPT !.nodes   = @ \cup {node.id},
                                     !.objects = addChild(held, parentId, node.id)],
                   ok |-> TRUE]
             ELSE [tm |-> [tm EXCEPT !.nodes     = @ \cup {node.id},
                                     !.objects   = [held EXCEPT ![node.id].parentId = NoNode,
                                                                ![node.id].depth = 0],
                                     !.rootNodes = Append(@, node.id)],
                   ok |-> TRUE]

\* the objects that can still be reached once the root array is `roots`
Reachable(objects, roots) ==
    LET keep == IdsIn(roots) \cup UNION {getDescendants(objects, r) : r \in IdsIn(roots)}
    IN  [id \in keep |-> objects[id]]

\* deleteNode(nodeId)
deleteNode(tm, nodeId) ==
    IF nodeId \notin tm.nodes THEN [tm |-> tm, ok |-> FALSE]
    ELSE LET node          == tm.objects[nodeId]
             nodesToDelete == getDescendants(tm.objects, nodeId) \cup {nodeId}
             detached      ==
                IF node.parentId # NoNode /\ node.parentId \in tm.nodes
                THEN [tm.objects EXCEPT ![node.parentId].children = WithoutId(@, nodeId)]
                ELSE tm.objects
             roots         ==
                IF node.parentId # NoNode THEN tm.rootNodes
                ELSE WithoutId(tm.rootNodes, nodeId)
         IN  [tm |-> [tm EXCEPT !.nodes          = @ \ nodesToDelete,
                                !.objects        = Reachable(detached, roots),
                                !.rootNodes      = roots,
                                !.selectedNodeId = IF @ = nodeId THEN NoNode ELSE @],
              ok |-> TRUE]

findNode(tm, nodeId) == IF nodeId \in tm.nodes THEN nodeId ELSE NoNode

getTotalNodeCount(tm) == Cardinality(tm.nodes)

setSelectedNode(tm, nodeId) == [tm EXCEPT !.selectedNodeId = nodeId]

\* TreeManager.clear()
clearTree(tm) ==
    [tm EXCEPT !.nodes = {}, !.objects = <<>>, !.rootNodes = <<>>, !.selectedNodeId = NoNode]

\* a node of a JSON document or of ECharts data
JsonNode(id, depth, children) == [id |-> id, depth |-> depth, children |-> children]

\* the documents loadFromJSON and fromEChartsData are given: the shapes of
\* toJSON's and toEChartsData's output on up to three nodes
JsonForests ==
    {<<>>,
     <<JsonNode(1, 0, <<>>)>>,
     <<JsonNode(1, 0, <<>>), JsonNode(2, 0, <<>>)>>,
     <<JsonNode(1, 0, <<JsonNode(2, 1, <<>>)>>)>>,
     <<JsonNode(1, 0, <<JsonNode(2, 1, <<>>), JsonNode(3, 1, <<>>)>>)>>,
     <<JsonNode(1, 0, <<JsonNode(2, 1, <<JsonNode(3, 2, <<>>)>>)>>)>>}

RECURSIVE JsonIds(_)
JsonIds(forest) ==
    UNION {{forest[i].id} \cup JsonIds(forest[i].children) : i \in 1..Len(forest)}

\* the objects of the first k subtrees TreeNode.fromJSON built and attached
\* with addChild under a node of the given id and depth
RECURSIVE fromJSON(_)
RECURSIVE ChildObjects(_, _, _, _)
ChildObjects(built, parentId, parentDepth, k) ==
    IF k = 0 THEN <<>>
    ELSE (built[k].node.id :> [built[k].node EXCEPT !.parentId = parentId,
                                                    !.depth = parentDepth + 1])
         @@ built[k].below
         @@ ChildObjects(built, parentId, parentDepth, k - 1)

\* TreeNode.fromJSON(json): the node and the objects below it
fromJSON(json) ==
    LET built == [i \in 1..Len(json.children) |-> fromJSON(json.children[i])]
    IN  [node  |-> [id |-> json.id, parentId |-> NoNode, depth |-> json.depth,
                    children |-> [i \in 1..Len(json.children) |-> json.children[i].id]],
         below |-> ChildObjects(built, json.id, json.depth, Len(built))]

\* the forEach of loadFromJSON over the first k roots
RECURSIVE LoadRoots(_, _, _)
LoadRoots(tm, rootNodes, k) ==
    IF k = 0 THEN tm
    ELSE LET rootNode == fromJSON(rootNodes[k])
         IN  addNode(LoadRoots(tm, rootNodes, k - 1), rootNode.node, rootNode.below, NoNode).tm

\* loadFromJSON(json)
loadFromJSON(tm, json) ==
    LET loaded == LoadRoots(clearTree(tm), json.rootNodes, Len(json.rootNodes))
    IN  IF json.selectedNodeId # NoNode
        THEN [loaded EXCEPT !.selectedNodeId = json.selectedNodeId]
        ELSE loaded

\* processData(data, parentId, depth) of fromEChartsData, and its forEach
\* over the first k entries of a list
RECURSIVE processData(_, _, _, _)
RECURSIVE ProcessAll(_, _, _, _, _)
ProcessAll(tm, list, parentId, depth, k) ==
    IF k = 0 THEN tm
    ELSE processData(ProcessAll(tm, list, parentId, depth, k - 1), list[k], parentId, depth)

processData(tm, data, parentId, depth) ==
    LET node == TreeNodeNew(data.id, parentId, depth)
    IN  ProcessAll(addNode(tm, node, <<>>, parentId).tm, data.children, data.id, depth + 1,
                   Len(data.children))

\* fromEChartsData(echartsData)
fromEChartsData(tm, echartsData) ==
    ProcessAll(clearTree(tm), echartsData, NoNode, 0, Len(echartsData))

(***************************************************************************)
(* ThemeManager.  `links` are the themes whose stylesheet link is in the   *)
(* document, `saved` the theme in local storage, and `pending` the         *)
(* transitions switchTheme has started and whose promise is not settled,   *)
(* each with the stage its applyTheme call is in:                          *)
(*   "css"      the link was appended, onload or onerror is awaited        *)
(*   "loaded"   loadThemeCSS resolved at once (no file, or link present)   *)
(*   "timer"    the animation timer is running                             *)
(*   "applied"  applyTheme resolved, the then handler is queued            *)
(*   "failed"   applyTheme's executor threw (the DOM or ECharts call), the *)
(*              catch handler is queued                                    *)
(* `from` of a pending transition is currentTheme at the call.             *)
(***************************************************************************)
ThemeNames == {"dark-gold", "light-blue", "high-contrast"}

DefaultTheme == "light-blue"

NoTheme == "null"

\* themes[name].cssFile is not null
HasCssFile(themeName) == themeName \in {"dark-gold", "light-blue"}

\* the first key of `themes` whose type is dark
FirstDarkTheme == "dark-gold"

\* the stage applyTheme(themeName) is in when its executor returns
stageAfterApply(th, themeName, applyThrows) ==
    IF applyThrows THEN "failed"
    ELSE IF HasCssFile(themeName) /\ themeName \notin th.links THEN "css"
    ELSE "loaded"

\* the links in the document after applyTheme's executor ran
linksAfterApply(th, themeName, applyThrows) ==
    IF ~applyThrows /\ HasCssFile(themeName) THEN th.links \cup {themeName} ELSE th.links

\* switchTheme(themeName, savePreference) without the isTransitioning test
switchThemeUnguarded(th, themeName, savePreference, applyThrows) ==
    IF themeName \notin ThemeNames
    THEN [th |-> th, outcome |-> "rejected"]
    ELSE IF themeName = th.currentTheme
    THEN [th |-> th, outcome |-> "unchanged"]
    ELSE [th |-> [th EXCEPT !.isTransitioning = TRUE,
                            !.previousTheme   = th.currentTheme,
                            !.currentTheme    = themeName,
                            !.links           = linksAfterApply(th, themeName, applyThrows),
                            !.pending         =
                                Append(@, [themeName      |-> themeName,
                                           savePreference |-> savePreference,
                                           from           |-> th.currentTheme,
                                           stage |-> stageAfterApply(th, themeName, applyThrows)])],
          outcome |-> "started"]

\* switchTheme(themeName, savePreference) up to the return of the promise
\* executor; applyThrows says whether applyTheme's executor throws
switchTheme(th, themeName, savePreference, applyThrows) ==
    IF themeName \notin ThemeNames
    THEN [th |-> th, outcome |-> "rejected"]
    ELSE IF th.isTransitioning
    THEN [th |-> th, outcome |-> "rejected"]
    ELSE IF themeName = th.currentTheme
    THEN [th |-> th, outcome |-> "unchanged"]
    ELSE [th |-> [th EXCEPT !.isTransitioning = TRUE,
                            !.previousTheme   = th.currentTheme,
                            !.currentTheme    = themeName,
                            !.links           = linksAfterApply(th, themeName, applyThrows),
                            !.pending         =
                                Append(@, [themeName      |-> themeName,
                                           savePreference |-> savePreference,
                                           from           |-> th.currentTheme,
                                           stage |-> stageAfterApply(th, themeName, applyThrows)])],
          outcome |-> "started"]

\* new ThemeManager(): loadSavedTheme, detectSystemTheme, then applyTheme of
\* the current theme without animation
ThemeManagerNew(saved, prefersDark, applyThrows) ==
    LET constructed == [currentTheme    |-> IF saved \in ThemeNames THEN saved ELSE DefaultTheme,
                        previousTheme   |-> NoTheme,
                        isTransitioning |-> FALSE,
                        links           |-> {},
                        saved           |-> saved,
                        pending         |-> <<>>]
        detected    == IF prefersDark /\ constructed.currentTheme = DefaultTheme
                          /\ FirstDarkTheme # constructed.currentTheme
                       THEN switchTheme(constructed, FirstDarkTheme, FALSE, applyThrows).th
                       ELSE constructed
    IN  [detected EXCEPT !.links = linksAfterApply(detected, detected.currentTheme, applyThrows)]

\* the pending transitions without the i-th
DropPending(pending, i) ==
    SubSeq(pending, 1, i - 1) \o SubSeq(pending, i + 1, Len(pending))

\* link.onload, or the resolved loadThemeCSS promise: applyTheme starts the
\* animation timer
cssLoaded(th, i) == [th EXCEPT !.pending[i].stage = "timer"]

\* link.onerror: applyTheme logs the failure and resolves
cssFailed(th, i) == [th EXCEPT !.pending[i].stage = "applied"]

\* the animation timer fires: applyTheme resolves
timerFired(th, i) == [th EXCEPT !.pending[i].stage = "applied"]

\* the then handler of switchTheme
transitionThen(th, i) ==
    [th EXCEPT !.saved = IF th.pending[i].savePreference THEN th.pending[i].themeName ELSE @,
               !.isTransitioning = FALSE,
               !.pending = DropPending(@, i)]

\* the catch handler of switchTheme
transitionCatch(th, i) ==
    [th EXCEPT !.isTransitioning = FALSE,
               !.currentTheme    = th.previousTheme,
               !.previousTheme   = NoTheme,
               !.pending         = DropPending(@, i)]

(***************************************************************************)
(* The state machine                                                       *)
(***************************************************************************)
\* the points a caller asks about
GridAngles == {FromInt(90), FromInt(355)}

GridRadii == {Rat(1, 10), Rat(1, 4), Rat(9, 10), Rat(11, 10)}

\* every node of a forest, with its parent (Null for a root)
RECURSIVE NodesOf(_, _)
NodesOf(forest, parent) ==
    UNION {{[node |-> forest[i], parent |-> parent]} \cup NodesOf(forest[i].children, forest[i])
           : i \in 1..Len(forest)}

RealNodes(forest) == {e.node : e \in {x \in NodesOf(forest, Null) : ~x.node.isGap}}

\* the screen point calculateScreenCoordinates gives for a node, as
\* findNodeByCoordinates reads it back
ScreenPoint(node) ==
    [angle       |-> NormalizeAngle(calculateScreenCoordinates(node).angle),
     radiusRatio |-> calculateScreenCoordinates(node).radiusRatio]

\* the nodes of a forest that have a ring
RingNodes(forest) ==
    {e.node : e \in {x \in NodesOf(forest, Null) : Defined(x.node.innerRadius)}}

Points(forest) ==
    {[angle |-> a, radiusRatio |-> r] : a \in GridAngles, r \in GridRadii}
    \cup {ScreenPoint(n) : n \in RingNodes(forest)}

\* the cache after Map.set(key, value)
CacheSet(c, key, value) ==
    [k \in DOMAIN c \cup {key} |-> IF k = key THEN value ELSE c[k]]

\* a call that rewrites the nodes of the placed forest rewrites the cached forest too
Rewritten(c, key, value) == IF key \in DOMAIN c THEN CacheSet(c, key, value) ELSE c

\* the layout side as constructed with the default options and no data
LayoutIdle ==
    /\ options = [gapAngle |-> DefaultGapAngle, maxDepth |-> DefaultMaxDepth,
                  innerRadius |-> DefaultInnerRadius, outerRadius |-> DefaultOuterRadius]
    /\ cache = <<>>
    /\ gapOptions = [gapAngle |-> DefaultGapAngle, enableGaps |-> TRUE,
                     minChildrenForGap |-> DefaultMinChildrenForGap]
    /\ gapNodes = {}
    /\ inputNodes = <<>>
    /\ placed = <<>>
    /\ gapPasses = 0

\* the history, tree and theme managers as constructed with the default
\* options, no saved theme and no system preference for a dark theme
ManagersIdle ==
    /\ historyManager = HistoryManagerNew(0, TRUE)
    /\ treeManager = TreeManagerNew(DefaultTreeMaxDepth, DefaultMaxNodes)
    /\ themeManager = ThemeManagerNew(NoTheme, FALSE, FALSE)

Init ==
    /\ options \in [gapAngle : GapAngles, maxDepth : MaxDepths,
                    innerRadius : {DefaultInnerRadius}, outerRadius : {DefaultOuterRadius}]
    /\ cache = <<>>
    /\ gapOptions = [gapAngle |-> DefaultGapAngle, enableGaps |-> TRUE,
                     minChildrenForGap |-> DefaultMinChildrenForGap]
    /\ gapNodes = {}
    /\ inputNodes \in Forests
    /\ placed = <<>>
    /\ gapPasses = 0
    /\ ret = [op |-> "none"]
    /\ ManagersIdle

\* calculateLayout(nodes); every path through it returns a forest, none
\* throws or reports an error
CalculateLayout ==
    /\ IF Len(inputNodes) = 0
       THEN /\ placed' = <<>>
            /\ gapPasses' = 0
            /\ cache' = cache
            /\ ret' = [op |-> "calculateLayout", cached |-> FALSE, threw |-> FALSE]
       ELSE IF inputNodes \in DOMAIN cache
       THEN /\ placed' = cache[inputNodes]
            /\ UNCHANGED <<cache, gapPasses>>
            /\ ret' = [op |-> "calculateLayout", cached |-> TRUE, threw |-> FALSE]
       ELSE /\ placed' = computeLayout(options, inputNodes)
            /\ cache' = CacheSet(cache, inputNodes, placed')
            /\ gapPasses' = 0
            /\ ret' = [op |-> "calculateLayout", cached |-> FALSE, threw |-> FALSE]
    /\ UNCHANGED <<options, gapOptions, gapNodes, inputNodes>>
    /\ UNCHANGED managerVars

\* gapManager.insertGaps(data)
InsertGaps ==
    /\ ret.op # "none"
    /\ gapPasses < MaxGapPasses
    /\ LET r == insertGaps(gapOptions, placed)
       IN  /\ placed' = r.data
           /\ cache' = Rewritten(cache, inputNodes, placed')
           /\ gapNodes' = IF r.cleared THEN RegistryAfter({}, r.sets, Len(r.sets))
                          ELSE gapNodes
           /\ gapPasses' = IF r.cleared THEN gapPasses + 1 ELSE gapPasses
    /\ ret' = [op |-> "insertGaps"]
    /\ UNCHANGED <<options, gapOptions, inputNodes>>
    /\ UNCHANGED managerVars

\* gapManager.removeGaps(data)
RemoveGaps ==
    /\ ret.op # "none"
    /\ placed' = removeGaps(placed)
    /\ cache' = Rewritten(cache, inputNodes, placed')
    /\ gapNodes' = {}
    /\ gapPasses' = 0
    /\ ret' = [op |-> "removeGaps"]
    /\ UNCHANGED <<options, gapOptions, inputNodes>>
    /\ UNCHANGED managerVars

\* gapManager.setEnabled(enabled)
SetEnabled ==
    /\ \E enabled \in BOOLEAN :
          gapOptions' = [gapOptions EXCEPT !.enableGaps = enabled]
    /\ UNCHANGED <<options, cache, gapNodes, inputNodes, placed, gapPasses, ret>>
    /\ UNCHANGED managerVars

\* findNodeByCoordinates(x, y, nodes, width, height)
FindNodeByCoordinates ==
    /\ ret.op # "none"
    /\ \E point \in Points(placed) :
          ret' = [op |-> "findNode", point |-> point,
                  node |-> findNodeByCoordinates(point, placed)]
    /\ UNCHANGED <<options, cache, gapOptions, gapNodes, inputNodes, placed, gapPasses>>
    /\ UNCHANGED managerVars

\* validateLayout(nodes)
ValidateLayout ==
    /\ ret.op # "none"
    /\ ret' = [op |-> "validateLayout", result |-> validateLayout(placed)]
    /\ UNCHANGED <<options, cache, gapOptions, gapNodes, inputNodes, placed, gapPasses>>
    /\ UNCHANGED managerVars

Next ==
    \/ CalculateLayout
    \/ InsertGaps
    \/ RemoveGaps
    \/ SetEnabled
    \/ FindNodeByCoordinates
    \/ ValidateLayout

Spec == Init /\ [][Next]_vars

\* laying out, inserting and removing gaps, and hit-testing, with the gap
\* manager left enabled
NextHit ==
    \/ CalculateLayout
    \/ InsertGaps
    \/ RemoveGaps
    \/ FindNodeByCoordinates

HitSpec == Init /\ [][NextHit]_vars

(***************************************************************************)
(* Changing the calculator's configuration.  LayoutCalculator has no       *)
(* method for it: a caller assigns to the fields of calculator.options.    *)
(***************************************************************************)
\* calculator.options.gapAngle = ..., calculator.options.maxDepth = ...
SetOptions ==
    /\ \E g \in GapAngles, m \in MaxDepths :
          /\ <<g, m>> # <<options.gapAngle, options.maxDepth>>
          /\ options' = [options EXCEPT !.gapAngle = g, !.maxDepth = m]
    /\ ret' = [op |-> "setOptions"]
    /\ UNCHANGED <<cache, gapOptions, gapNodes, inputNodes, placed, gapPasses>>
    /\ UNCHANGED managerVars

\* clearCache()
ClearCache ==
    /\ cache' = <<>>
    /\ ret' = [op |-> "clearCache"]
    /\ UNCHANGED <<options, gapOptions, gapNodes, inputNodes, placed, gapPasses>>
    /\ UNCHANGED managerVars

NextConfig ==
    \/ CalculateLayout
    \/ SetOptions
    \/ ClearCache

ConfigSpec == Init /\ [][NextConfig]_vars

(***************************************************************************)
(* SunburstEngine.setData / applyGaps.  The engine is constructed with its *)
(* default options and nothing changes them afterwards.                    *)
(***************************************************************************)
\* SunburstEngine's default gapAngle
SunburstGapAngle == 3

\* the id of an object that has none
NoId == <<>>

\* the gap node applyGaps builds: no id, no depth, no radii
engineGapNode(startAngle, angleRange) ==
    [id |-> NoId, value |-> 0, isGap |-> TRUE, startAngle |-> startAngle,
     angleRange |-> angleRange, depth |-> -1, innerRadius |-> Undefined,
     outerRadius |-> Undefined, children |-> <<>>]

\* processNode of applyGaps; the forEach loop is applySpliceFrom: the new
\* children from the i-th child on
RECURSIVE applyProcessNode(_, _, _, _)
RECURSIVE applySpliceFrom(_, _, _, _, _)
applySpliceFrom(gapAngle, node, childAngle, currentAngle, i) ==
    LET n     == Len(node.children)
        gap   == FromInt(gapAngle)
        child == applyProcessNode(gapAngle,
                    [node.children[i] EXCEPT !.startAngle = currentAngle,
                                             !.angleRange = childAngle],
                    childAngle, currentAngle)
        after == RAdd(currentAngle, childAngle)
    IN  IF i = n
        THEN <<child>>
        ELSE <<child, engineGapNode(after, gap)>>
             \o applySpliceFrom(gapAngle, node, childAngle, RAdd(after, gap), i + 1)

applyProcessNode(gapAngle, node, parentAngleRange, parentStartAngle) ==
    LET n          == Len(node.children)
        childAngle == gapChildAngle(parentAngleRange, FromInt(gapAngle), n)
    IN  IF n = 0
        THEN node
        ELSE [node EXCEPT !.children =
                applySpliceFrom(gapAngle, node, childAngle, parentStartAngle, 1)]

\* applyGaps(data, gapAngle): the input's own nodes, rewritten
applyGaps(data, gapAngle) ==
    [i \in 1..Len(data) |->
        applyProcessNode(gapAngle, data[i], FromInt(FullCircle), Zero)]

(***************************************************************************)
(* Gap insertion over a forest that may carry gaps already                 *)
(***************************************************************************)
\* the gap angles a caller passes to adjustGapAngle
NewGapAngles == {0, DefaultGapAngle, 10}

InitGap ==
    /\ options = [gapAngle |-> DefaultGapAngle, maxDepth |-> DefaultMaxDepth,
                  innerRadius |-> DefaultInnerRadius, outerRadius |-> DefaultOuterRadius]
    /\ cache = <<>>
    /\ gapOptions = [gapAngle |-> DefaultGapAngle, enableGaps |-> TRUE,
                     minChildrenForGap |-> DefaultMinChildrenForGap]
    /\ gapNodes = {}
    /\ inputNodes \in Forests
    /\ placed = <<>>
    /\ gapPasses = 0
    /\ ret = [op |-> "none"]
    /\ ManagersIdle

\* gapManager.insertGaps(data), also on a forest that has been through it
InsertGapsAgain ==
    /\ ret.op # "none"
    /\ gapPasses < MaxGapPasses + 1
    /\ LET r == insertGaps(gapOptions, placed)
       IN  /\ placed' = r.data
           /\ cache' = Rewritten(cache, inputNodes, placed')
           /\ gapNodes' = IF r.cleared THEN RegistryAfter({}, r.sets, Len(r.sets))
                          ELSE gapNodes
           /\ gapPasses' = IF r.cleared THEN gapPasses + 1 ELSE gapPasses
    /\ ret' = [op |-> "insertGaps"]
    /\ UNCHANGED <<options, gapOptions, inputNodes>>
    /\ UNCHANGED managerVars

\* gapManager.adjustGapAngle(newGapAngle, data): removeGaps, then insertGaps
AdjustGapAngle ==
    /\ ret.op # "none"
    /\ \E newGapAngle \in NewGapAngles :
          /\ gapOptions' = [gapOptions EXCEPT !.gapAngle = newGapAngle]
          /\ LET r == insertGaps(gapOptions', removeGaps(placed))
             IN  /\ placed' = r.data
                 /\ gapNodes' = IF r.cleared
                                THEN RegistryAfter({}, r.sets, Len(r.sets))
                                ELSE {}
                 /\ gapPasses' = IF r.cleared THEN 1 ELSE 0
    /\ cache' = Rewritten(cache, inputNodes, placed')
    /\ ret' = [op |-> "adjustGapAngle"]
    /\ UNCHANGED <<options, inputNodes>>
    /\ UNCHANGED managerVars

\* engine.setData(data, applyGaps) with the forest the caller holds; the
\* engine keeps the caller's array as this.data and hands the chart the
\* same node objects
SetData ==
    /\ ret.op # "none"
    /\ gapPasses < MaxGapPasses + 1
    /\ \E flag \in BOOLEAN :
          /\ IF flag /\ SunburstGapAngle > 0
             THEN /\ placed' = applyGaps(placed, SunburstGapAngle)
                  /\ gapPasses' = gapPasses + 1
             ELSE UNCHANGED <<placed, gapPasses>>
          /\ ret' = [op |-> "setData", applyGaps |-> flag]
    /\ cache' = Rewritten(cache, inputNodes, placed')
    /\ UNCHANGED <<options, gapOptions, gapNodes, inputNodes>>
    /\ UNCHANGED managerVars

NextGap ==
    \/ CalculateLayout
    \/ InsertGapsAgain
    \/ RemoveGaps
    \/ AdjustGapAngle
    \/ SetData

GapSpec == InitGap /\ [][NextGap]_vars

(***************************************************************************)
(* The tree goes to the chart first: setData splices the gap nodes into    *)
(* the caller's tree, and that tree is then laid out and hit-tested        *)
(***************************************************************************)
\* engine.setData(nodes) with the input forest, before any layout
SetDataInput ==
    /\ ret.op = "none"
    /\ SunburstGapAngle > 0
    /\ inputNodes' = applyGaps(inputNodes, SunburstGapAngle)
    /\ ret' = [op |-> "setData", applyGaps |-> TRUE]
    /\ UNCHANGED <<options, cache, gapOptions, gapNodes, placed, gapPasses>>
    /\ UNCHANGED managerVars

NextChartFirst ==
    \/ SetDataInput
    \/ CalculateLayout
    \/ FindNodeByCoordinates

ChartFirstSpec == Init /\ [][NextChartFirst]_vars

(***************************************************************************)
(* findNodeByPolar on its own: the forest is a single sector a caller      *)
(* built, with an interval that may run past 360 degrees                   *)
(***************************************************************************)
SectorStarts == {270, 350}

SectorRanges == {20, 100}

QueryAngles == {0, 5, 10, 80, 180, 270, 290, 349, 350, 355, 359}

QueryRadii == {Rat(1, 4), Rat(1, 2), Rat(19, 20)}

\* a forest of one leaf sector in the default ring
SectorForest(start, range) ==
    <<[RawNode(<<1>>, 1, <<>>) EXCEPT
          !.startAngle  = FromInt(start),
          !.angleRange  = FromInt(range),
          !.depth       = 0,
          !.innerRadius = DefaultInnerRadius,
          !.outerRadius = DefaultOuterRadius]>>

InitPolar ==
    /\ options = [gapAngle |-> DefaultGapAngle, maxDepth |-> DefaultMaxDepth,
                  innerRadius |-> DefaultInnerRadius, outerRadius |-> DefaultOuterRadius]
    /\ cache = <<>>
    /\ gapOptions = [gapAngle |-> DefaultGapAngle, enableGaps |-> TRUE,
                     minChildrenForGap |-> DefaultMinChildrenForGap]
    /\ gapNodes = {}
    /\ inputNodes = <<>>
    /\ placed \in {SectorForest(a, r) : a \in SectorStarts, r \in SectorRanges}
    /\ gapPasses = 0
    /\ ret = [op |-> "none"]
    /\ ManagersIdle

\* findNodeByPolar(angle, radiusRatio, nodes)
FindNodeByPolar ==
    /\ \E a \in QueryAngles, r \in QueryRadii :
          ret' = [op |-> "findNodeByPolar",
                  point |-> [angle |-> FromInt(a), radiusRatio |-> r],
                  node |-> findNodeByPolar(FromInt(a), r, placed)]
    /\ UNCHANGED <<options, cache, gapOptions, gapNodes, inputNodes, placed, gapPasses>>
    /\ UNCHANGED managerVars

PolarSpec == InitPolar /\ [][FindNodeByPolar]_vars

(***************************************************************************)
(* HistoryManager on its own                                               *)
(***************************************************************************)
InitHistory ==
    /\ LayoutIdle
    /\ historyManager \in {HistoryManagerNew(m, e) : m \in StepChoices, e \in BOOLEAN}
    /\ treeManager = TreeManagerNew(DefaultTreeMaxDepth, DefaultMaxNodes)
    /\ themeManager = ThemeManagerNew(NoTheme, FALSE, FALSE)
    /\ ret = [op |-> "none"]

\* historyManager.record(state, action)
Record ==
    /\ \E state \in HistoryStates :
          historyManager' = record(historyManager, state, "edit")
    /\ ret' = [op |-> "record"]
    /\ UNCHANGED <<layoutVars, treeManager, themeManager>>

\* historyManager.undo()
Undo ==
    /\ historyManager' = undo(historyManager).hm
    /\ ret' = [op |-> "undo", isNull |-> undo(historyManager).isNull,
               state |-> undo(historyManager).state]
    /\ UNCHANGED <<layoutVars, treeManager, themeManager>>

\* historyManager.redo()
Redo ==
    /\ historyManager' = redo(historyManager).hm
    /\ ret' = [op |-> "redo", isNull |-> redo(historyManager).isNull,
               state |-> redo(historyManager).state]
    /\ UNCHANGED <<layoutVars, treeManager, themeManager>>

\* historyManager.setMaxSteps(maxSteps)
SetMaxSteps ==
    /\ \E maxSteps \in StepChoices :
          /\ historyManager' = setMaxSteps(historyManager, maxSteps).hm
          /\ ret' = [op |-> "setMaxSteps", threw |-> setMaxSteps(historyManager, maxSteps).threw]
    /\ UNCHANGED <<layoutVars, treeManager, themeManager>>

\* historyManager.clear()
ClearHistory ==
    /\ historyManager' = clearHistory(historyManager)
    /\ ret' = [op |-> "clearHistory"]
    /\ UNCHANGED <<layoutVars, treeManager, themeManager>>

\* historyManager.setEnabled(enabled)
SetHistoryEnabled ==
    /\ \E enabled \in BOOLEAN :
          historyManager' = setHistoryEnabled(historyManager, enabled)
    /\ ret' = [op |-> "setHistoryEnabled"]
    /\ UNCHANGED <<layoutVars, treeManager, themeManager>>

NextHistory ==
    \/ Record
    \/ Undo
    \/ Redo
    \/ SetMaxSteps
    \/ ClearHistory
    \/ SetHistoryEnabled

HistorySpec == InitHistory /\ [][NextHistory]_vars

(***************************************************************************)
(* TreeManager on its own                                                  *)
(***************************************************************************)
InitTree ==
    /\ LayoutIdle
    /\ historyManager = HistoryManagerNew(0, TRUE)
    /\ treeManager \in {TreeManagerNew(d, n) : d \in TreeMaxDepths, n \in TreeMaxNodes}
    /\ themeManager = ThemeManagerNew(NoTheme, FALSE, FALSE)
    /\ ret = [op |-> "none"]

\* treeManager.addNode(new TreeNode({id}), parentId)
AddNode ==
    /\ \E id \in TreeIds, parentId \in {NoNode} \cup TreeIds :
          /\ id \notin DOMAIN treeManager.objects \/ id \in treeManager.nodes
          /\ LET r == addNode(treeManager, TreeNodeNew(id, NoNode, 0), <<>>, parentId)
             IN  /\ treeManager' = r.tm
                 /\ ret' = [op |-> "addNode", ok |-> r.ok]
    /\ UNCHANGED <<layoutVars, historyManager, themeManager>>

\* treeManager.deleteNode(nodeId)
DeleteNode ==
    /\ \E nodeId \in TreeIds :
          LET r == deleteNode(treeManager, nodeId)
          IN  /\ treeManager' = r.tm
              /\ ret' = [op |-> "deleteNode", ok |-> r.ok]
    /\ UNCHANGED <<layoutVars, historyManager, themeManager>>

\* treeManager.setSelectedNode(nodeId), with the id of a node the manager
\* holds or with null
SetSelectedNode ==
    /\ \E nodeId \in treeManager.nodes \cup {NoNode} :
          treeManager' = setSelectedNode(treeManager, nodeId)
    /\ ret' = [op |-> "setSelectedNode"]
    /\ UNCHANGED <<layoutVars, historyManager, themeManager>>

\* treeManager.loadFromJSON(json)
LoadFromJSON ==
    /\ \E forest \in JsonForests :
          \E selected \in {NoNode} \cup JsonIds(forest) :
              treeManager' = loadFromJSON(treeManager,
                                 [rootNodes |-> forest, selectedNodeId |-> selected])
    /\ ret' = [op |-> "loadFromJSON"]
    /\ UNCHANGED <<layoutVars, historyManager, themeManager>>

\* treeManager.fromEChartsData(echartsData)
FromEChartsData ==
    /\ \E forest \in JsonForests :
          treeManager' = fromEChartsData(treeManager, forest)
    /\ ret' = [op |-> "fromEChartsData"]
    /\ UNCHANGED <<layoutVars, historyManager, themeManager>>

\* treeManager.clear()
ClearTree ==
    /\ treeManager' = clearTree(treeManager)
    /\ ret' = [op |-> "clearTree"]
    /\ UNCHANGED <<layoutVars, historyManager, themeManager>>

NextTree ==
    \/ AddNode
    \/ DeleteNode
    \/ SetSelectedNode
    \/ LoadFromJSON
    \/ FromEChartsData
    \/ ClearTree

TreeSpec == InitTree /\ [][NextTree]_vars

\* adding, selecting and deleting nodes only
NextSelect ==
    \/ AddNode
    \/ SetSelectedNode
    \/ DeleteNode

SelectSpec == InitTree /\ [][NextSelect]_vars

(***************************************************************************)
(* ThemeManager on its own: switchTheme calls and the callbacks of the     *)
(* transitions they start, in any order                                    *)
(***************************************************************************)
InitTheme ==
    /\ LayoutIdle
    /\ historyManager = HistoryManagerNew(0, TRUE)
    /\ treeManager = TreeManagerNew(DefaultTreeMaxDepth, DefaultMaxNodes)
    /\ themeManager \in {ThemeManagerNew(saved, prefersDark, applyThrows) :
                            saved \in ThemeNames \cup {NoTheme},
                            prefersDark \in BOOLEAN, applyThrows \in BOOLEAN}
    /\ ret = [op |-> "none"]

\* themeManager.switchTheme(themeName, savePreference)
SwitchTheme ==
    /\ \E themeName \in ThemeNames \cup {"missing"}, savePreference \in BOOLEAN,
          applyThrows \in BOOLEAN :
          LET r == switchTheme(themeManager, themeName, savePreference, applyThrows)
          IN  /\ themeManager' = r.th
              /\ ret' = [op |-> "switchTheme", themeName |-> themeName, outcome |-> r.outcome]
    /\ UNCHANGED <<layoutVars, historyManager, treeManager>>

\* the stylesheet of a pending transition is there
CssLoaded ==
    /\ \E i \in 1..Len(themeManager.pending) :
          /\ themeManager.pending[i].stage \in {"css", "loaded"}
          /\ themeManager' = cssLoaded(themeManager, i)
    /\ ret' = [op |-> "cssLoaded"]
    /\ UNCHANGED <<layoutVars, historyManager, treeManager>>

\* the stylesheet of a pending transition fails to load
CssFailed ==
    /\ \E i \in 1..Len(themeManager.pending) :
          /\ themeManager.pending[i].stage = "css"
          /\ themeManager' = cssFailed(themeManager, i)
    /\ ret' = [op |-> "cssFailed"]
    /\ UNCHANGED <<layoutVars, historyManager, treeManager>>

\* the animation timer of a pending transition fires
TimerFired ==
    /\ \E i \in 1..Len(themeManager.pending) :
          /\ themeManager.pending[i].stage = "timer"
          /\ themeManager' = timerFired(themeManager, i)
    /\ ret' = [op |-> "timerFired"]
    /\ UNCHANGED <<layoutVars, historyManager, treeManager>>

\* the then handler of a pending transition runs: its promise resolves
TransitionThen ==
    /\ \E i \in 1..Len(themeManager.pending) :
          /\ themeManager.pending[i].stage = "applied"
          /\ themeManager' = transitionThen(themeManager, i)
          /\ ret' = [op |-> "switchResolved",
                     themeName |-> themeManager.pending[i].themeName,
                     from |-> themeManager.pending[i].from]
    /\ UNCHANGED <<layoutVars, historyManager, treeManager>>

\* the catch handler of a pending transition runs: its promise rejects
TransitionCatch ==
    /\ \E i \in 1..Len(themeManager.pending) :
          /\ themeManager.pending[i].stage = "failed"
          /\ themeManager' = transitionCatch(themeManager, i)
          /\ ret' = [op |-> "switchFailed",
                     themeName |-> themeManager.pending[i].themeName,
                     from |-> themeManager.pending[i].from]
    /\ UNCHANGED <<layoutVars, historyManager, treeManager>>

NextTheme ==
    \/ SwitchTheme
    \/ CssLoaded
    \/ CssFailed
    \/ TimerFired
    \/ TransitionThen
    \/ TransitionCatch

ThemeSpec == InitTheme /\ [][NextTheme]_vars

(***************************************************************************)
(* Properties                                                              *)
(***************************************************************************)
\* the sibling groups of a forest: the root list against the full circle,
\* and the children of every node against the node's own interval
Groups(forest) ==
    {[start |-> Zero, range |-> FromInt(FullCircle), members |-> forest, isRoot |-> TRUE]}
    \cup {[start |-> e.node.startAngle, range |-> e.node.angleRange,
           members |-> e.node.children, isRoot |-> FALSE] :
            e \in {x \in NodesOf(forest, Null) : Len(x.node.children) > 0}}

EndAngle(node) == RAdd(node.startAngle, node.angleRange)

\* the gap the configuration puts between two consecutive members
GapBetween(a, b) == IF a.isGap \/ b.isGap THEN Zero ELSE FromInt(options.gapAngle)

Produced == ret.op = "calculateLayout" /\ Len(placed) > 0

\* C1: Angle conservation.  In a forest produced by calculateLayout every
\* sibling group starts at its parent's startAngle, consecutive siblings are
\* one gap apart, and the last sibling ends at the end of the parent's range
\* (the root list tiles the full circle).
C1_AngleConservation ==
    Produced =>
        \A g \in Groups(placed) :
            LET m == g.members
            IN  Len(m) > 0 =>
                  /\ m[1].startAngle = g.start
                  /\ \A i \in 1..(Len(m) - 1) :
                        m[i + 1].startAngle = RAdd(EndAngle(m[i]), GapBetween(m[i], m[i + 1]))
                  /\ EndAngle(m[Len(m)]) = RAdd(g.start, g.range)

\* C2: Proportional partition with n-1 gaps.  Each sibling of a group of n
\* gets (R - g*(n-1)) * w_i / sum(w); two root leaves of value 1 and 3 with
\* a gap of 10 degrees get 87.5 degrees from 0 and 262.5 degrees from 97.5.
C2_ProportionalPartition ==
    (Produced /\ ~ret.cached) =>
        /\ \A g \in Groups(placed) :
              LET m     == g.members
                  n     == Len(m)
                  avail == RSub(g.range, RMul(FromInt(options.gapAngle), FromInt(n - 1)))
              IN  \A i \in 1..n :
                    m[i].angleRange =
                        RMul(avail, RDiv(calculateNodeWeight(m[i]), calculateTotalWeight(m)))
        /\ (options.gapAngle = 10 /\ inputNodes = MakeLevel(<<>>, 2, 0, "skew")) =>
              /\ placed[1].startAngle = Zero
              /\ placed[1].angleRange = Rat(175, 2)
              /\ placed[2].startAngle = Rat(195, 2)
              /\ placed[2].angleRange = Rat(525, 2)

\* C3: Single child.  The only member of a sibling group gets the whole
\* range of its parent, whatever the configured gap.
C3_SingleChildFillsParent ==
    Produced =>
        \A g \in Groups(placed) :
            Len(g.members) = 1 =>
                /\ g.members[1].startAngle = g.start
                /\ g.members[1].angleRange = g.range

\* C4: Positive sectors.  Every real node placed by calculateLayout has
\* angleRange > 0.
C4_PositiveSectors ==
    Produced => \A node \in RealNodes(placed) : RLt(Zero, node.angleRange)

\* the angle x lies in the node's interval [startAngle, startAngle +
\* angleRange); an interval whose end lies before its start is one that
\* wraps at 360/0, as the hit-test reads it
InInterval(node, x) ==
    IF RLe(node.startAngle, EndAngle(node))
    THEN RLe(node.startAngle, x) /\ RLt(x, EndAngle(node))
    ELSE RLe(node.startAngle, x) \/ RLt(x, EndAngle(node))

\* some angle of [0, 360) lies in the intervals of both a and b (if one
\* does, the least such angle is 0 or the start of a or of b)
Overlap(a, b) ==
    \E x \in {Zero, a.startAngle, b.startAngle} :
        /\ RLe(Zero, x)
        /\ RLt(x, FromInt(FullCircle))
        /\ InInterval(a, x)
        /\ InInterval(b, x)

\* C5: Non-overlap.  In a forest produced by calculateLayout the intervals
\* [startAngle, startAngle + angleRange) of two distinct siblings are
\* disjoint, at the root level and under every parent.
C5_NonOverlap ==
    Produced =>
        \A g \in Groups(placed) :
            \A i, j \in 1..Len(g.members) :
                i # j => ~Overlap(g.members[i], g.members[j])

\* C6: Radius nesting.  For every parent and child of a produced forest
\* parent.inner <= child.inner < child.outer <= parent.outer, and every
\* radius is within [0, 1].
C6_RadiusNesting ==
    Produced =>
        \A e \in NodesOf(placed, Null) :
            ~e.node.isGap =>
                /\ RLe(Zero, e.node.innerRadius)
                /\ RLt(e.node.innerRadius, e.node.outerRadius)
                /\ RLe(e.node.outerRadius, One)
                /\ e.parent # Null =>
                      /\ RLe(e.parent.innerRadius, e.node.innerRadius)
                      /\ RLe(e.node.outerRadius, e.parent.outerRadius)

\* the angles of the real nodes of a forest, by id
AnglesOf(forest) ==
    {[id |-> n.id, startAngle |-> n.startAngle, angleRange |-> n.angleRange] :
        n \in RealNodes(forest)}

HasGapNode(forest) == \E e \in NodesOf(forest, Null) : e.node.isGap

\* C7: Gap round trip.  For a tree laid out without gaps, removeGaps after
\* insertGaps leaves no gap node and gives every real node the startAngle
\* and angleRange of the layout without gaps.
C7_GapRoundTrip ==
    [][(/\ ret.op = "insertGaps"
        /\ gapPasses = 1
        /\ options.gapAngle = 0
        /\ ret'.op = "removeGaps")
       => (/\ ~HasGapNode(placed')
           /\ AnglesOf(placed') = AnglesOf(computeLayout(options, inputNodes)))]_vars

\* every sibling group of the forest can hold its n-1 gaps
GapsFit(forest) ==
    \A g \in Groups(forest) :
        RLt(RMul(FromInt(options.gapAngle), FromInt(Len(g.members) - 1)), g.range)

\* C8: The validator accepts the engine's own output.  validateLayout of a
\* non-empty forest computed by calculateLayout under a configuration whose
\* gaps fit returns isValid = true and no issues.
C8_ValidatorAcceptsLayout ==
    (/\ ret.op = "validateLayout"
     /\ Len(placed) > 0
     /\ placed = computeLayout(options, inputNodes)
     /\ GapsFit(placed))
    => (ret.result.isValid /\ ret.result.issues = {})

\* the point lies in the node's sector, both ends of the angular interval
\* and of the ring included; an interval whose end lies before its start
\* wraps at 360/0
SectorContains(node, point) ==
    /\ Defined(node.innerRadius)
    /\ IF RLe(node.startAngle, EndAngle(node))
       THEN RLe(node.startAngle, point.angle) /\ RLe(point.angle, EndAngle(node))
       ELSE RLe(node.startAngle, point.angle) \/ RLe(point.angle, EndAngle(node))
    /\ RLe(node.innerRadius, point.radiusRatio)
    /\ RLe(point.radiusRatio, node.outerRadius)

\* C9 as claimed: the hit-test of a non-empty forest returns null exactly
\* when the point's radiusRatio is greater than 1.
C9_NullIffOutOfBounds ==
    (ret.op = "findNode" /\ Len(placed) > 0) =>
        (ret.node = Null <=> RLt(One, ret.point.radiusRatio))

\* C9 as amended: the hit-test returns null exactly when radiusRatio > 1 or
\* no root's sector contains the point; a node it returns is the nearest
\* enclosing one: its sector contains the point and no child's sector does.
C9_NullIffNoRootContains ==
    (ret.op = "findNode" /\ Len(placed) > 0) =>
        /\ ret.node = Null <=>
              \/ RLt(One, ret.point.radiusRatio)
              \/ \A i \in 1..Len(placed) : ~SectorContains(placed[i], ret.point)
        /\ ret.node # Null =>
              /\ SectorContains(ret.node, ret.point)
              /\ \A i \in 1..Len(ret.node.children) :
                    ~SectorContains(ret.node.children[i], ret.point)

\* C9 witness: a point in the angular gap between the two children of the
\* first root, inside the root's ring, resolves to the root
C9_Witness ==
    /\ ret.op = "findNode"
    /\ Len(placed) > 0
    /\ Len(placed[1].children) = 2
    /\ options.gapAngle > 0
    /\ RLt(EndAngle(placed[1].children[1]), ret.point.angle)
    /\ RLt(ret.point.angle, placed[1].children[2].startAngle)
    /\ SectorContains(placed[1], ret.point)
    /\ ret.node = placed[1]

\* the point lies in the node's own sector: [startAngle, startAngle +
\* angleRange) and [innerRadius, outerRadius)
InOwnSector(node, point) ==
    /\ RLe(node.startAngle, point.angle)
    /\ RLt(point.angle, EndAngle(node))
    /\ RLe(node.innerRadius, point.radiusRatio)
    /\ RLt(point.radiusRatio, node.outerRadius)

\* C10: The hit-test resolves a point to the node whose own sector contains
\* it: for every real node N of a forest computed by calculateLayout and
\* every point of N's sector, N's representative point included, the
\* hit-test returns N.
C10_HitResolvesOwnSector ==
    (/\ ret.op = "findNode"
     /\ placed = computeLayout(options, inputNodes))
    => \A node \in RealNodes(placed) :
          InOwnSector(node, ret.point) => ret.node = node

\* the sector's interval runs past 360 degrees
CrossesBoundary(node) == RLt(FromInt(FullCircle), EndAngle(node))

\* C11: Wraparound hit-testing.  For a sector whose interval crosses the
\* 360/0 boundary, findNodeByPolar matches exactly the query angles of
\* [startAngle, 360) and of [0, startAngle + angleRange - 360).
C11_WraparoundMatch ==
    (/\ ret.op = "findNodeByPolar"
     /\ CrossesBoundary(placed[1])
     /\ RLe(placed[1].innerRadius, ret.point.radiusRatio)
     /\ RLt(ret.point.radiusRatio, placed[1].outerRadius))
    => (ret.node = placed[1] <=>
          \/ /\ RLe(placed[1].startAngle, ret.point.angle)
             /\ RLt(ret.point.angle, FromInt(FullCircle))
          \/ /\ RLe(Zero, ret.point.angle)
             /\ RLt(ret.point.angle, RSub(EndAngle(placed[1]), FromInt(FullCircle))))

\* C12: Gap-exceeds-range is an error.  When the n-1 gaps of some sibling
\* group of the layout are not strictly smaller than the range of the
\* group's parent, calculateLayout fails with an error and caches nothing.
C12_GapExceedsRangeIsError ==
    (/\ ret.op = "calculateLayout"
     /\ Len(inputNodes) > 0
     /\ ~GapsFit(computeLayout(options, inputNodes)))
    => (ret.threw /\ inputNodes \notin DOMAIN cache)

\* C13: Cache coherence under configuration change.  Whatever calls and
\* configuration changes came before, calculateLayout(nodes) returns the
\* layout a fresh computation under the current configuration produces.
C13_CacheFollowsConfiguration ==
    (ret.op = "calculateLayout" /\ Len(inputNodes) > 0)
    => placed = computeLayout(options, inputNodes)

\* C14: Placed forests are fresh per call.  A second calculateLayout call on
\* the same input under the same configuration returns the layout the first
\* call returned, whatever the caller did to that forest in between.
C14_FreshPerCall ==
    (ret.op = "calculateLayout" /\ ret.cached)
    => placed = computeLayout(options, inputNodes)

\* C15: insertGaps is a pure transform.  A call of insertGaps leaves the
\* forest it was given as it was: no children list, startAngle or angleRange
\* of an input node changes.
C15_InsertGapsLeavesInput ==
    [][ret'.op = "insertGaps" => placed' = placed]_vars

RealChildren(node) == SelectSeq(node.children, LAMBDA c : ~c.isGap)

\* every real node with at least minChildrenForGap real children has one gap
\* between each two of them and nowhere else; every other real node has no
\* gap among its children
GapsDecidedPerNode(forest) ==
    \A node \in RealNodes(forest) :
        LET k == Len(RealChildren(node))
        IN  IF k >= gapOptions.minChildrenForGap
            THEN /\ Len(node.children) = 2 * k - 1
                 /\ \A i \in 1..Len(node.children) :
                       node.children[i].isGap <=> (i % 2 = 0)
            ELSE node.children = RealChildren(node)

\* C16: Gap insertion is decided per node.  After insertGaps on a gap-free
\* tree (gaps enabled, gapAngle > 0) every node at every depth with at least
\* minChildrenForGap children has gaps spliced between its children, and no
\* other node has, whatever the number of children of its ancestors.
C16_GapsDecidedPerNode ==
    [][(gapPasses = 0 /\ gapPasses' = 1 /\ ret'.op = "insertGaps")
       => GapsDecidedPerNode(placed')]_vars

\* gaps sit only between real children: at most k-1 of them for k real
\* children, none first or last, no two next to each other
GapsOnlyBetween(children) ==
    LET k == Len(SelectSeq(children, LAMBDA c : ~c.isGap))
    IN  /\ Len(children) - k <= IF k = 0 THEN 0 ELSE k - 1
        /\ Len(children) > 0 =>
              (~children[1].isGap /\ ~children[Len(children)].isGap)
        /\ \A i \in 1..(Len(children) - 1) :
              ~(children[i].isGap /\ children[i + 1].isGap)

\* C17: Gaps sit only between consecutive real siblings.  After any sequence
\* of insertGaps, removeGaps, adjustGapAngle and setData calls on a tree,
\* every children list with k real children holds at most k-1 gap nodes,
\* none of them first or last, no two of them adjacent.
C17_GapsOnlyBetweenSiblings ==
    \A e \in NodesOf(placed, Null) : GapsOnlyBetween(e.node.children)

\* the gap nodes of a forest, each with its parent and its index among the
\* gap nodes of that parent
GapsOf(forest) ==
    UNION {{[node     |-> e.node.children[i],
             parent   |-> e.node,
             gapIndex |-> Cardinality({j \in 1..(i - 1) : e.node.children[j].isGap})] :
              i \in {j \in 1..Len(e.node.children) : e.node.children[j].isGap}} :
           e \in NodesOf(forest, Null)}

\* C18: Gap ids are deterministic and unique.  After gap insertion on a
\* gap-free tree every gap node has the id made of its parent's id and its
\* gap index, no two gap nodes of the tree share an id, and after the
\* GapManager's insertion the gapNodes registry has exactly one entry per
\* gap node of the tree.
C18_GapIdsDeterministicUnique ==
    [][(gapPasses = 0 /\ gapPasses' = 1)
       => (/\ \A g \in GapsOf(placed') :
                g.node.id = GapId(g.parent.id, g.gapIndex)
           /\ \A g, h \in GapsOf(placed') : g # h => g.node.id # h.node.id
           /\ ret'.op \in {"insertGaps", "adjustGapAngle"} =>
                /\ {e.id : e \in gapNodes'} = {g.node.id : g \in GapsOf(placed')}
                /\ Cardinality(gapNodes') = Cardinality(GapsOf(placed')))]_vars

\* C19: Hit-test never returns a gap node.  For any forest, also one whose
\* children lists hold isGap nodes, and any query point, the node the
\* hit-test returns is not a gap node.
C19_HitNeverReturnsGap ==
    ret.op = "findNode" => ~ret.node.isGap

\* the node is `root` or a descendant of it: ids are paths
InSubtree(node, root) ==
    /\ Len(root.id) <= Len(node.id)
    /\ SubSeq(node.id, 1, Len(root.id)) = root.id

\* C20: Half-open sectors in hit-testing.  In a layout with gap 0 a query
\* angle equal to the boundary shared by two consecutive siblings does not
\* resolve to the first of them (nor into its subtree), and a radiusRatio
\* equal to a node's outerRadius is outside that node.
C20_HalfOpenSectors ==
    (/\ ret.op = "findNode"
     /\ options.gapAngle = 0
     /\ placed = computeLayout(options, inputNodes))
    => /\ \A g \in Groups(placed) :
             \A i \in 1..(Len(g.members) - 1) :
                 (/\ EndAngle(g.members[i]) = g.members[i + 1].startAngle
                  /\ ret.point.angle = g.members[i + 1].startAngle)
                 => ~InSubtree(ret.node, g.members[i])
       /\ ret.node # Null => RLt(ret.point.radiusRatio, ret.node.outerRadius)


\* C21: Depth truncation.  No node of a forest produced by calculateLayout
\* has a depth greater than the configured maxDepth.
C21_DepthTruncation ==
    Produced =>
        \A e \in NodesOf(placed, Null) : e.node.depth <= options.maxDepth

\* the width of one of the maxDepth + 1 bands of the configured ring
BandStep == RDiv(RSub(options.outerRadius, options.innerRadius),
                 FromInt(options.maxDepth + 1))

\* the band of depth d, a depth beyond maxDepth taking the last band
BandOf(d) ==
    LET k == IF d > options.maxDepth THEN options.maxDepth ELSE d
    IN  [innerRadius |-> RAdd(options.innerRadius, RMul(BandStep, FromInt(k))),
         outerRadius |-> RAdd(options.innerRadius, RMul(BandStep, FromInt(k + 1)))]

\* C22: Uniform radial bands per depth.  Every node of a forest produced by
\* calculateLayout at depth d has the ring [innerRadius + d*s, innerRadius +
\* (d+1)*s] with s = (outerRadius - innerRadius) / (maxDepth + 1); a root
\* has the innermost band.
C22_UniformBands ==
    Produced =>
        \A e \in NodesOf(placed, Null) :
            /\ e.node.innerRadius = BandOf(e.node.depth).innerRadius
            /\ e.node.outerRadius = BandOf(e.node.depth).outerRadius

\* every layout field the four checks read is present on the node
LaidOut(node) ==
    /\ Defined(node.startAngle)
    /\ Defined(node.angleRange)
    /\ Defined(node.innerRadius)
    /\ Defined(node.outerRadius)

\* the four properties of one sibling group under its parent: the ranges
\* and the gaps between real siblings sum to the group's range, no two real
\* siblings overlap, and no real member has angleRange <= 0
GroupSound(g) ==
    LET m == g.members
    IN  /\ \A i \in 1..Len(m) : Defined(m[i].startAngle) /\ Defined(m[i].angleRange)
        /\ Defined(g.range)
        /\ RLe(RAbs(RSub(RAdd(AngleSum(m, Len(m)),
                              RSum([i \in 1..(Len(m) - 1) |-> GapBetween(m[i], m[i + 1])],
                                   Len(m) - 1)),
                         g.range)),
               AngleTolerance)
        /\ \A i, j \in 1..Len(m) :
              (i # j /\ ~m[i].isGap /\ ~m[j].isGap) => ~Overlap(m[i], m[j])
        /\ \A i \in 1..Len(m) : ~m[i].isGap => RLt(Zero, m[i].angleRange)

\* the ring of a child lies in the ring of its parent
RingNested(e) ==
    e.parent # Null =>
        /\ LaidOut(e.node) /\ LaidOut(e.parent)
        /\ RLe(e.parent.innerRadius, e.node.innerRadius)
        /\ RLe(e.node.outerRadius, e.parent.outerRadius)

\* C23: Validator completeness at every level.  When validateLayout returns
\* isValid = true, every non-empty sibling group at every depth sums to its
\* parent's range, has no overlapping real siblings and no real node with
\* angleRange <= 0, and every child's ring is nested in its parent's ring.
C23_ValidatorComplete ==
    (ret.op = "validateLayout" /\ ret.result.isValid) =>
        /\ \A g \in Groups(placed) : Len(g.members) > 0 => GroupSound(g)
        /\ \A e \in NodesOf(placed, Null) : ~e.node.isGap => RingNested(e)

\* C24: No angular overflow.  Every node of a forest produced by
\* calculateLayout has 0 <= startAngle < 360 and startAngle + angleRange <=
\* 360, and the interval of every child lies inside its parent's interval.
C24_NoAngularOverflow ==
    Produced =>
        \A e \in NodesOf(placed, Null) :
            /\ RLe(Zero, e.node.startAngle)
            /\ RLt(e.node.startAngle, FromInt(FullCircle))
            /\ RLe(EndAngle(e.node), FromInt(FullCircle))
            /\ e.parent # Null =>
                  /\ RLe(e.parent.startAngle, e.node.startAngle)
                  /\ RLe(EndAngle(e.node), EndAngle(e.parent))


\* C25: Tree depth limit.  No node the TreeManager holds (in its Map or
\* under its roots) has a depth greater than maxDepth, and the depth of
\* every node with a parent is its parent's depth + 1.
C25_TreeDepthLimit ==
    \A id \in treeManager.nodes \cup TreeNodeIds(treeManager) :
        LET node == treeManager.objects[id]
        IN  /\ node.depth <= treeManager.maxDepth
            /\ (node.parentId # NoNode /\ node.parentId \in DOMAIN treeManager.objects)
                  => node.depth = treeManager.objects[node.parentId].depth + 1

\* C26: Undo stack bound.  Neither stack of the HistoryManager is longer
\* than maxSteps.
C26_StackBound ==
    /\ Len(historyManager.undoStack) <= historyManager.maxSteps
    /\ Len(historyManager.redoStack) <= historyManager.maxSteps

\* the last entry of a non-empty stack
Top(stack) == stack[Len(stack)]

\* a stack without its last entry
Popped(stack) == SubSeq(stack, 1, Len(stack) - 1)

\* C27: Redo is invalidated by a new record, and undo and redo are inverse.
\* (a) After a record() on an enabled manager canRedo() is false.  (b) An
\* undo() while canUndo() holds returns the state of the top snapshot of the
\* undo stack and moves that snapshot to the top of the redo stack; a redo()
\* right after it returns the same state and moves the snapshot back, so
\* both stacks are as before the undo.  (c) undo() on an empty undo stack
\* and redo() on an empty redo stack return null and change neither stack.
C27_UndoRedoInverse ==
    [][/\ (ret'.op = "record" /\ historyManager'.enabled) => ~canRedo(historyManager')
       /\ (ret'.op = "undo" /\ canUndo(historyManager)) =>
             /\ ~ret'.isNull
             /\ ret'.state = Top(historyManager.undoStack).state
             /\ historyManager'.undoStack = Popped(historyManager.undoStack)
             /\ historyManager'.redoStack =
                    Append(historyManager.redoStack, Top(historyManager.undoStack))
       /\ (ret.op = "undo" /\ ~ret.isNull /\ ret'.op = "redo") =>
             /\ ~ret'.isNull
             /\ ret'.state = ret.state
             /\ historyManager'.redoStack = Popped(historyManager.redoStack)
             /\ historyManager'.undoStack =
                    Append(historyManager.undoStack, Top(historyManager.redoStack))
       /\ (ret'.op = "undo" /\ Len(historyManager.undoStack) = 0) =>
             /\ ret'.isNull
             /\ historyManager' = historyManager
       /\ (ret'.op = "redo" /\ Len(historyManager.redoStack) = 0) =>
             /\ ret'.isNull
             /\ historyManager' = historyManager]_vars

\* a redo() has returned a state and put a snapshot back on top of another
C27_Witness ==
    /\ ret.op = "redo"
    /\ ~ret.isNull
    /\ Len(historyManager.undoStack) >= 2
    /\ Len(historyManager.redoStack) >= 1

\* C28: TreeManager index consistency.  The ids of the `nodes` Map are the
\* ids of the nodes reachable from rootNodes through children.
C28_IndexConsistency ==
    treeManager.nodes = TreeNodeIds(treeManager)

\* C29: Selection never dangles after deletion.  After addNode,
\* setSelectedNode (with ids of held nodes) and deleteNode calls
\* selectedNodeId is null or the id of a node still in the tree.
C29_SelectionNeverDangles ==
    \/ treeManager.selectedNodeId = NoNode
    \/ treeManager.selectedNodeId \in TreeNodeIds(treeManager)

\* C30: Theme transitions are mutually exclusive.  At most one transition
\* is in flight; a switchTheme call made while isTransitioning is true is
\* rejected and leaves currentTheme and previousTheme as they are; when a
\* transition resolves isTransitioning is false and currentTheme is the
\* requested theme, and when it fails isTransitioning is false and
\* currentTheme is the theme that was current before the call.
C30_TransitionsExclusive ==
    /\ [](Len(themeManager.pending) <= 1)
    /\ [][/\ (themeManager.isTransitioning /\ ret'.op = "switchTheme") =>
                /\ ret'.outcome = "rejected"
                /\ themeManager'.currentTheme = themeManager.currentTheme
                /\ themeManager'.previousTheme = themeManager.previousTheme
          /\ ret'.op = "switchResolved" =>
                /\ ~themeManager'.isTransitioning
                /\ themeManager'.currentTheme = ret'.themeName
          /\ ret'.op = "switchFailed" =>
                /\ ~themeManager'.isTransitioning
                /\ themeManager'.currentTheme = ret'.from]_vars

\* a switchTheme call for a theme that exists was rejected while a
\* transition was in flight
C30_Witness ==
    /\ ret.op = "switchTheme"
    /\ ret.outcome = "rejected"
    /\ ret.themeName \in ThemeNames
    /\ themeManager.isTransitioning
    /\ Len(themeManager.pending) = 1

====
